---------------------------- MODULE Spec2Model ----------------------------
(***************************************************************************)
(* Model of the dual-core DTFT engine of pico-DTFT-poc (src/lib/dtft.c,    *)
(* src/lib/lut.h, src/lib/lut.c): the trigonometric lookup table, the     *)
(* three copies of the per-bin accumulation kernel, the shared job slot    *)
(* core1_params and the two cores that communicate through it.             *)
(*                                                                         *)
(* Arithmetic.  The code computes in single-precision floats; the model    *)
(* computes the same expressions exactly.  An angle is a record            *)
(* [num, den] standing for 2*pi*num/den (den is the num_points of the      *)
(* call), a table entry is an integer in units of 1/LutOne, and a value    *)
(* returned by fast_sin / fast_cos for an angle of denominator den is an   *)
(* integer in units of 1/(den*LutOne).  Rounding of float operations is    *)
(* not modelled.                                                           *)
(***************************************************************************)
EXTENDS Integers, Sequences, FiniteSets, TLC

\* ------------------------------------------------------------------ bounds
MaxCalls == 2
MaxN == 5
MaxK == 3

\* --------------------------------------------------------------- constants
LUT_SIZE == 1024
LutOne == LUT_SIZE
NULL == 0

LUT_MASK == LUT_SIZE - 1

\* C's int division and float-to-int conversion truncate toward zero.
TruncDiv(a, b) == IF a >= 0 THEN a \div b ELSE -((-a) \div b)

\* index & LUT_MASK on a two's-complement int, LUT_SIZE a power of two.
MaskIndex(index) == index % LUT_SIZE

\* Half-wave of the sine table: entry i of sin_lut for i in [0, LUT_SIZE/2),
\* in units of 1/LutOne (Bhaskara's rational approximation of sinf).
HalfSine(i) ==
    LET h == LUT_SIZE \div 2
        p == i * (h - i)
    IN  (16 * p * LutOne) \div (5 * h * h - 4 * p)

\* sin_lut[i] = sinf(2*pi*i/LUT_SIZE)
sin_lut(i) ==
    IF i < LUT_SIZE \div 2 THEN HalfSine(i) ELSE -HalfSine(i - LUT_SIZE \div 2)

\* cos_lut[i] = cosf(2*pi*i/LUT_SIZE)
cos_lut(i) == sin_lut((i + LUT_SIZE \div 4) % LUT_SIZE)

\* Angles: 2*pi*num/den.
Angle(num, den) == [num |-> num, den |-> den]
AngleAdd(a, b) == Angle(a.num + b.num, a.den)
AngleScale(c, a) == Angle(c * a.num, a.den)
AngleNeg(a) == Angle(-a.num, a.den)

\* fast_sin: scaled = angle * LUT_SCALE = num * LUT_SIZE / den;
\* index = (int)scaled; frac = scaled - index; index &= LUT_MASK;
\* next_index = (index + 1) & LUT_MASK;
\* return sin_lut[index] + frac * (sin_lut[next_index] - sin_lut[index]).
\* The result is in units of 1/(den*LutOne); fracNum / den is frac.
fast_sin(angle) ==
    LET scaledNum == angle.num * LUT_SIZE
        trunc == TruncDiv(scaledNum, angle.den)
        fracNum == scaledNum - trunc * angle.den
        index == MaskIndex(trunc)
        next_index == MaskIndex(index + 1)
    IN  angle.den * sin_lut(index)
          + fracNum * (sin_lut(next_index) - sin_lut(index))

fast_cos(angle) ==
    LET scaledNum == angle.num * LUT_SIZE
        trunc == TruncDiv(scaledNum, angle.den)
        fracNum == scaledNum - trunc * angle.den
        index == MaskIndex(trunc)
        next_index == MaskIndex(index + 1)
    IN  angle.den * cos_lut(index)
          + fracNum * (cos_lut(next_index) - cos_lut(index))

\* x[n] of a C array held as a TLA+ sequence.
At(x, n) == x[n + 1]

\* N & ~3
RoundDown4(N) == N - (N % 4)

\* Accumulator state of one bin: loop index, running angle, the two sums.
Acc(n, angle, re, im) == [n |-> n, angle |-> angle, real_part |-> re, imag_part |-> im]

\* ---------------------------------------------- compute_dtft_magnitude
\* The unrolled loop advancing the angle by 3 * neg_omega per group of 4.
RECURSIVE Mag_Unrolled_angle3(_, _, _, _)
Mag_Unrolled_angle3(x, N_unroll, neg_omega, a) ==
    IF a.n < N_unroll
    THEN LET angle1 == a.angle
             angle2 == AngleAdd(a.angle, neg_omega)
             angle3 == AngleAdd(a.angle, AngleScale(2, neg_omega))
             angle4 == AngleAdd(a.angle, AngleScale(3, neg_omega))
             re == a.real_part
                     + At(x, a.n) * fast_cos(angle1) + At(x, a.n + 1) * fast_cos(angle2)
                     + At(x, a.n + 2) * fast_cos(angle3) + At(x, a.n + 3) * fast_cos(angle4)
             im == a.imag_part
                     + At(x, a.n) * fast_sin(angle1) + At(x, a.n + 1) * fast_sin(angle2)
                     + At(x, a.n + 2) * fast_sin(angle3) + At(x, a.n + 3) * fast_sin(angle4)
         IN  Mag_Unrolled_angle3(x, N_unroll, neg_omega,
                 Acc(a.n + 4, AngleAdd(a.angle, AngleScale(3, neg_omega)), re, im))
    ELSE a

RECURSIVE Mag_Unrolled(_, _, _, _)
Mag_Unrolled(x, N_unroll, neg_omega, a) ==
    IF a.n < N_unroll
    THEN LET angle1 == a.angle
             angle2 == AngleAdd(a.angle, neg_omega)
             angle3 == AngleAdd(a.angle, AngleScale(2, neg_omega))
             angle4 == AngleAdd(a.angle, AngleScale(3, neg_omega))
             re == a.real_part
                     + At(x, a.n) * fast_cos(angle1) + At(x, a.n + 1) * fast_cos(angle2)
                     + At(x, a.n + 2) * fast_cos(angle3) + At(x, a.n + 3) * fast_cos(angle4)
             im == a.imag_part
                     + At(x, a.n) * fast_sin(angle1) + At(x, a.n + 1) * fast_sin(angle2)
                     + At(x, a.n + 2) * fast_sin(angle3) + At(x, a.n + 3) * fast_sin(angle4)
         IN  Mag_Unrolled(x, N_unroll, neg_omega,
                 Acc(a.n + 4, AngleAdd(a.angle, AngleScale(4, neg_omega)), re, im))
    ELSE a

RECURSIVE Mag_Remainder(_, _, _, _)
Mag_Remainder(x, N, neg_omega, a) ==
    IF a.n < N
    THEN Mag_Remainder(x, N, neg_omega,
             Acc(a.n + 1, AngleAdd(a.angle, neg_omega),
                 a.real_part + At(x, a.n) * fast_cos(a.angle),
                 a.imag_part + At(x, a.n) * fast_sin(a.angle)))
    ELSE a

\* The two sums compute_dtft_magnitude holds when it reaches its return.
Mag_Sums(x, N, omega) ==
    LET neg_omega == AngleNeg(omega)
        a0 == Acc(0, Angle(0, omega.den), 0, 0)
    IN  Mag_Remainder(x, N, neg_omega,
            Mag_Unrolled(x, RoundDown4(N), neg_omega, a0))

\* sqrtf on the model's integers: the integer square root.
RECURSIVE SqrtSearch(_, _)
SqrtSearch(v, r) == IF (r + 1) * (r + 1) > v THEN r ELSE SqrtSearch(v, r + 1)

RECURSIVE sqrtf(_)
sqrtf(v) ==
    IF v < 4 THEN SqrtSearch(v, 0)
    ELSE LET r == 2 * sqrtf(v \div 4)
         IN  IF (r + 1) * (r + 1) > v THEN r ELSE r + 1

compute_dtft_magnitude(x, N, omega) ==
    LET s == Mag_Sums(x, N, omega)
    IN  sqrtf(s.real_part * s.real_part + s.imag_part * s.imag_part)

calculate_dtft(x, N, num_points, malloc_ok) ==
    IF ~malloc_ok
    THEN [ptr |-> NULL, data |-> << >>]
    ELSE [ptr |-> 1,
          data |-> [i \in 1..num_points |->
                      compute_dtft_magnitude(x, N, Angle(i - 1, num_points))]]

\* ------------------------------------- calculate_dtft_complex, core0 loop
RECURSIVE Core0_Unrolled(_, _, _, _)
Core0_Unrolled(x, N_unroll, neg_omega, a) ==
    IF a.n < N_unroll
    THEN LET angle1 == a.angle
             angle2 == AngleAdd(a.angle, neg_omega)
             angle3 == AngleAdd(a.angle, AngleScale(2, neg_omega))
             angle4 == AngleAdd(a.angle, AngleScale(3, neg_omega))
             re == a.real_part
                     + At(x, a.n) * fast_cos(angle1) + At(x, a.n + 1) * fast_cos(angle2)
                     + At(x, a.n + 2) * fast_cos(angle3) + At(x, a.n + 3) * fast_cos(angle4)
             im == a.imag_part
                     + At(x, a.n) * fast_sin(angle1) + At(x, a.n + 1) * fast_sin(angle2)
                     + At(x, a.n + 2) * fast_sin(angle3) + At(x, a.n + 3) * fast_sin(angle4)
         IN  Core0_Unrolled(x, N_unroll, neg_omega,
                 Acc(a.n + 4, AngleAdd(a.angle, AngleScale(4, neg_omega)), re, im))
    ELSE a

RECURSIVE Core0_Remainder(_, _, _, _)
Core0_Remainder(x, N, neg_omega, a) ==
    IF a.n < N
    THEN Core0_Remainder(x, N, neg_omega,
             Acc(a.n + 1, AngleAdd(a.angle, neg_omega),
                 a.real_part + At(x, a.n) * fast_cos(a.angle),
                 a.imag_part + At(x, a.n) * fast_sin(a.angle)))
    ELSE a

\* Body of the core0 loop for bin k: omega = omega_scale * k with
\* omega_scale = 2*pi/num_points.
Core0_Bin(x, N, num_points, k) ==
    LET omega == Angle(k, num_points)
        neg_omega == AngleNeg(omega)
        a0 == Acc(0, Angle(0, num_points), 0, 0)
    IN  Core0_Remainder(x, N, neg_omega,
            Core0_Unrolled(x, RoundDown4(N), neg_omega, a0))

\* ------------------------------------------- core1_dtft_worker, bin loop
\* The worker reads the sample buffer and its length through core1_params
\* (p); sig is the memory p.signal points to.
RECURSIVE Core1_Unrolled(_, _, _, _)
Core1_Unrolled(sig, N_unroll, neg_omega, a) ==
    IF a.n < N_unroll
    THEN LET angle1 == a.angle
             angle2 == AngleAdd(a.angle, neg_omega)
             angle3 == AngleAdd(a.angle, AngleScale(2, neg_omega))
             angle4 == AngleAdd(a.angle, AngleScale(3, neg_omega))
             re == a.real_part
                     + At(sig, a.n) * fast_cos(angle1) + At(sig, a.n + 1) * fast_cos(angle2)
                     + At(sig, a.n + 2) * fast_cos(angle3) + At(sig, a.n + 3) * fast_cos(angle4)
             im == a.imag_part
                     + At(sig, a.n) * fast_sin(angle1) + At(sig, a.n + 1) * fast_sin(angle2)
                     + At(sig, a.n + 2) * fast_sin(angle3) + At(sig, a.n + 3) * fast_sin(angle4)
         IN  Core1_Unrolled(sig, N_unroll, neg_omega,
                 Acc(a.n + 4, AngleAdd(a.angle, AngleScale(4, neg_omega)), re, im))
    ELSE a

RECURSIVE Core1_Remainder(_, _, _, _)
Core1_Remainder(sig, signal_len, neg_omega, a) ==
    IF a.n < signal_len
    THEN Core1_Remainder(sig, signal_len, neg_omega,
             Acc(a.n + 1, AngleAdd(a.angle, neg_omega),
                 a.real_part + At(sig, a.n) * fast_cos(a.angle),
                 a.imag_part + At(sig, a.n) * fast_sin(a.angle)))
    ELSE a

\* Mutation: the worker's copy of the kernel lacks the remainder loop.
Core1_Bin_noremainder(sig, signal_len, omega_den, k) ==
    LET omega == Angle(k, omega_den)
        neg_omega == AngleNeg(omega)
        a0 == Acc(0, Angle(0, omega_den), 0, 0)
    IN  Core1_Unrolled(sig, RoundDown4(signal_len), neg_omega, a0)

\* Body of the worker loop for bin k; omega_den is the num_points the
\* worker read when it formed omega_scale.
Core1_Bin(sig, signal_len, omega_den, k) ==
    LET omega == Angle(k, omega_den)
        neg_omega == AngleNeg(omega)
        a0 == Acc(0, Angle(0, omega_den), 0, 0)
    IN  Core1_Remainder(sig, signal_len, neg_omega,
            Core1_Unrolled(sig, RoundDown4(signal_len), neg_omega, a0))

\* ================================================================ state
VARIABLES
    core1_params,   \* the shared job slot (static core1_params)
    core0,          \* core0: position in calculate_dtft_complex and its locals
    core1,          \* core1: position in core1_dtft_worker and its locals
    xmem,           \* sample buffers, by pointer
    omem,           \* output buffers, by pointer
    wlog,           \* history: who wrote each bin of each output buffer
    calls,          \* history: calls of calculate_dtft_complex started
    pub,            \* history: jobs published (stores of signal = x)
    observed,       \* history: jobs whose done flag core0 has read as true
    magnitudes,     \* result of calculate_dtft on the current sample buffer
    uaf             \* history: an access hit memory that was not live

\* State of the sequential parts of the program, each exercised by a
\* specification of its own (PipeSpec, ClassSpec, LutSpec, RptSpec below).
VARIABLES
    pipe,             \* send_data / process_pattern_return_value: one run
    cls,              \* reconstruct_pixel_value: one call and its result
    lut,              \* fast_sin / fast_cos: one lookup and its indices
    rpt               \* repeat_pattern: one call, its argument and result

\* The variables of the dual-core engine.
dvars == <<core1_params, core0, core1, xmem, omem, wlog, calls, pub, observed,
          magnitudes, uaf>>

\* The variables of the sequential parts.
svars == <<pipe, cls, lut, rpt>>

vars == <<core1_params, core0, core1, xmem, omem, wlog, calls, pub, observed,
         magnitudes, uaf, pipe, cls, lut, rpt>>

\* Buffers of the pattern pipeline: NULL, or allocated with contents d.
PipeNull == [ptr |-> NULL, data |-> << >>]

PipeBuf(d) == [ptr |-> 1, data |-> d]

\* failed: the allocations of this run that returned NULL.  ret = NoReturn
\* until process_pattern_return_value has returned; classified tells whether
\* the value returned came from reconstruct_pixel_value.
NoReturn == [returned |-> FALSE, classified |-> FALSE]

PipeStart ==
    [pc |-> "idle", data |-> 0, num_bits |-> 0, gpio |-> << >>,
     bits_sent |-> PipeNull, signal_buffer |-> PipeNull, total_len |-> 0,
     complex_values |-> << >>, failed |-> {}, ret |-> NoReturn,
     fn |-> "", allocated |-> {}, freed |-> << >>]

\* Values of the sequential parts' variables while they are not exercised.
ClsIdle == [pc |-> "idle"]
LutIdle == [pc |-> "idle"]

RptIdle == [pc |-> "idle"]

SeqIdle ==
    /\ pipe = PipeStart
    /\ cls = ClsIdle
    /\ lut = LutIdle
    /\ rpt = RptIdle

Ptrs == 1..MaxCalls

\* One float of an output buffer: uninitialised after malloc (poison) or
\* holding a stored value.
Poison == [written |-> FALSE, val |-> 0]
Stored(v) == [written |-> TRUE, val |-> v]

Dead == [live |-> FALSE, data |-> << >>]
Live(d) == [live |-> TRUE, data |-> d]

RECURSIVE BitSeqs(_)
BitSeqs(n) ==
    IF n = 0 THEN {<< >>}
    ELSE {Append(s, b) : s \in BitSeqs(n - 1), b \in {0, 1}}

\* Sample buffers the caller may pass: every 0/1 buffer of length <= MaxN.
SampleBuffers == UNION {BitSeqs(n) : n \in 0..MaxN}

Core0Idle ==
    [pc |-> "idle", x |-> NULL, N |-> 0, num_points |-> 0,
     complex_values |-> NULL, split_point |-> 0, k |-> 0]

NoMagnitudes ==
    [called |-> FALSE, malloc_ok |-> FALSE, ret |-> [ptr |-> NULL, data |-> << >>]]

\* State after init_core1_dtft: signal = NULL, done = true, the rest of the
\* static struct zero; core1 launched at the top of its loop.
Init ==
    /\ core1_params = [signal |-> NULL, signal_len |-> 0, start_freq |-> 0,
                       end_freq |-> 0, num_points |-> 0, output |-> NULL,
                       done |-> TRUE]
    /\ core0 = Core0Idle
    /\ core1 = [pc |-> "w_poll", k |-> 0, omega_den |-> 0, job |-> 0]
    /\ xmem = [p \in Ptrs |-> Dead]
    /\ omem = [p \in Ptrs |-> Dead]
    /\ wlog = [p \in Ptrs |-> << >>]
    /\ calls = 0
    /\ pub = 0
    /\ observed = 0
    /\ magnitudes = NoMagnitudes
    /\ uaf = FALSE
    /\ SeqIdle

\* ======================================================= core0 (producer)
\* Mutation: the result of malloc is not checked.
Core0Call_nocheck(xs, K, malloc_ok) ==
    /\ core0.pc = "idle"
    /\ calls < MaxCalls
    /\ calls' = calls + 1
    /\ xmem' = [xmem EXCEPT ![calls + 1] = Live(xs)]
    /\ IF malloc_ok
       THEN /\ omem' = [omem EXCEPT ![calls + 1] = Live([i \in 1..(2 * K) |-> Poison])]
            /\ wlog' = [wlog EXCEPT ![calls + 1] = [i \in 1..K |-> << >>]]
       ELSE UNCHANGED <<omem, wlog>>
    /\ core0' = [pc |-> "c_len", x |-> calls + 1, N |-> Len(xs),
                 num_points |-> K,
                 complex_values |-> IF malloc_ok THEN calls + 1 ELSE NULL,
                 split_point |-> TruncDiv(K, 2), k |-> 0]
    /\ UNCHANGED <<core1_params, core1, pub, observed, magnitudes, uaf>>
    /\ UNCHANGED svars

\* Entry of calculate_dtft_complex(x, N, num_points) on a sample buffer the
\* caller has just allocated: malloc of the output buffer (uninitialised
\* memory, i.e. all poison), the NULL return when it fails, and
\* split_point = num_points / 2.
Core0Call(xs, K, malloc_ok) ==
    /\ core0.pc = "idle"
    /\ calls < MaxCalls
    /\ calls' = calls + 1
    /\ xmem' = [xmem EXCEPT ![calls + 1] = Live(xs)]
    /\ IF malloc_ok
       THEN /\ omem' = [omem EXCEPT ![calls + 1] = Live([i \in 1..(2 * K) |-> Poison])]
            /\ wlog' = [wlog EXCEPT ![calls + 1] = [i \in 1..K |-> << >>]]
            /\ core0' = [pc |-> "c_len", x |-> calls + 1, N |-> Len(xs),
                         num_points |-> K, complex_values |-> calls + 1,
                         split_point |-> TruncDiv(K, 2), k |-> 0]
       ELSE /\ core0' = [Core0Idle EXCEPT !.pc = "ret", !.x = calls + 1,
                                          !.N = Len(xs), !.num_points = K]
            /\ UNCHANGED <<omem, wlog>>
    /\ UNCHANGED <<core1_params, core1, pub, observed, magnitudes, uaf>>
    /\ UNCHANGED svars

\* Mutation: the signal field is written first instead of last.
Core0WriteSignalLen_trigger ==
    /\ core0.pc = "c_len"
    /\ core1_params' = [core1_params EXCEPT !.signal = core0.x, !.signal_len = core0.N]
    /\ core0' = [core0 EXCEPT !.pc = "c_start"]
    /\ UNCHANGED <<core1, xmem, omem, wlog, calls, pub, observed, magnitudes, uaf>>
    /\ UNCHANGED svars

\* core1_params.signal_len = N;
Core0WriteSignalLen ==
    /\ core0.pc = "c_len"
    /\ core1_params' = [core1_params EXCEPT !.signal_len = core0.N]
    /\ core0' = [core0 EXCEPT !.pc = "c_start"]
    /\ UNCHANGED <<core1, xmem, omem, wlog, calls, pub, observed, magnitudes, uaf>>
    /\ UNCHANGED svars

\* Mutation: the worker's sub-range starts one bin late.
Core0WriteStartFreq_off ==
    /\ core0.pc = "c_start"
    /\ core1_params' = [core1_params EXCEPT !.start_freq = core0.split_point + 1]
    /\ core0' = [core0 EXCEPT !.pc = "c_end"]
    /\ UNCHANGED <<core1, xmem, omem, wlog, calls, pub, observed, magnitudes, uaf>>
    /\ UNCHANGED svars

\* core1_params.start_freq = split_point;
Core0WriteStartFreq ==
    /\ core0.pc = "c_start"
    /\ core1_params' = [core1_params EXCEPT !.start_freq = core0.split_point]
    /\ core0' = [core0 EXCEPT !.pc = "c_end"]
    /\ UNCHANGED <<core1, xmem, omem, wlog, calls, pub, observed, magnitudes, uaf>>
    /\ UNCHANGED svars

\* core1_params.end_freq = num_points;
Core0WriteEndFreq ==
    /\ core0.pc = "c_end"
    /\ core1_params' = [core1_params EXCEPT !.end_freq = core0.num_points]
    /\ core0' = [core0 EXCEPT !.pc = "c_np"]
    /\ UNCHANGED <<core1, xmem, omem, wlog, calls, pub, observed, magnitudes, uaf>>
    /\ UNCHANGED svars

\* core1_params.num_points = num_points;
Core0WriteNumPoints ==
    /\ core0.pc = "c_np"
    /\ core1_params' = [core1_params EXCEPT !.num_points = core0.num_points]
    /\ core0' = [core0 EXCEPT !.pc = "c_out"]
    /\ UNCHANGED <<core1, xmem, omem, wlog, calls, pub, observed, magnitudes, uaf>>
    /\ UNCHANGED svars

\* Mutation: the output field is not refreshed, the slot keeps the buffer
\* of the previous job.
Core0WriteOutput_stale ==
    /\ core0.pc = "c_out"
    /\ core0' = [core0 EXCEPT !.pc = "c_done"]
    /\ UNCHANGED <<core1_params, core1, xmem, omem, wlog, calls, pub, observed, magnitudes, uaf>>
    /\ UNCHANGED svars

\* core1_params.output = complex_values;
Core0WriteOutput ==
    /\ core0.pc = "c_out"
    /\ core1_params' = [core1_params EXCEPT !.output = core0.complex_values]
    /\ core0' = [core0 EXCEPT !.pc = "c_done"]
    /\ UNCHANGED <<core1, xmem, omem, wlog, calls, pub, observed, magnitudes, uaf>>
    /\ UNCHANGED svars

\* Mutation: done is not cleared before the job is published.
Core0ClearDone_skip ==
    /\ core0.pc = "c_done"
    /\ core0' = [core0 EXCEPT !.pc = "c_signal"]
    /\ UNCHANGED <<core1_params, core1, xmem, omem, wlog, calls, pub, observed, magnitudes, uaf>>
    /\ UNCHANGED svars

\* core1_params.done = false; __dmb();
Core0ClearDone ==
    /\ core0.pc = "c_done"
    /\ core1_params' = [core1_params EXCEPT !.done = FALSE]
    /\ core0' = [core0 EXCEPT !.pc = "c_signal"]
    /\ UNCHANGED <<core1, xmem, omem, wlog, calls, pub, observed, magnitudes, uaf>>
    /\ UNCHANGED svars

\* core1_params.signal = x;  (publishes the job), then k = 0 of the loop.
Core0Publish ==
    /\ core0.pc = "c_signal"
    /\ core1_params' = [core1_params EXCEPT !.signal = core0.x]
    /\ pub' = pub + 1
    /\ core0' = [core0 EXCEPT !.pc = "c_loop", !.k = 0]
    /\ UNCHANGED <<core1, xmem, omem, wlog, calls, observed, magnitudes, uaf>>
    /\ UNCHANGED svars

\* One iteration of for (k = 0; k < split_point; k++): the accumulation and
\* the stores complex_values[2*k], complex_values[2*k + 1].
Core0ComputeBin ==
    /\ core0.pc = "c_loop"
    /\ core0.k < core0.split_point
    /\ LET a == Core0_Bin(xmem[core0.x].data, core0.N, core0.num_points, core0.k)
           p == core0.complex_values
       IN  /\ omem' = [omem EXCEPT ![p].data =
                          [@ EXCEPT ![2 * core0.k + 1] = Stored(a.real_part),
                                    ![2 * core0.k + 2] = Stored(a.imag_part)]]
           /\ wlog' = [wlog EXCEPT ![p][core0.k + 1] =
                          Append(@, [by |-> "core0", job |-> pub])]
    /\ core0' = [core0 EXCEPT !.k = core0.k + 1]
    /\ UNCHANGED <<core1_params, core1, xmem, calls, pub, observed, magnitudes, uaf>>
    /\ UNCHANGED svars

\* k < split_point fails: fall through to the wait loop.
Core0LoopExit ==
    /\ core0.pc = "c_loop"
    /\ ~(core0.k < core0.split_point)
    /\ core0' = [core0 EXCEPT !.pc = "c_wait"]
    /\ UNCHANGED <<core1_params, core1, xmem, omem, wlog, calls, pub, observed, magnitudes, uaf>>
    /\ UNCHANGED svars

\* Mutation: the wait gives up without having read done = true.
Core0WaitDone_timeout ==
    /\ core0.pc = "c_wait"
    /\ core0' = [core0 EXCEPT !.pc = "ret"]
    /\ observed' = observed + 1
    /\ UNCHANGED <<core1_params, core1, xmem, omem, wlog, calls, pub, magnitudes, uaf>>
    /\ UNCHANGED svars

\* while (!core1_params.done) { __dmb(); tight_loop_contents(); } __dmb();
\* return complex_values;   A poll that reads done = false changes nothing
\* (a stuttering step); the loop is left only by reading done = true.
Core0WaitDone ==
    /\ core0.pc = "c_wait"
    /\ core1_params.done
    /\ core0' = [core0 EXCEPT !.pc = "ret"]
    /\ observed' = observed + 1
    /\ UNCHANGED <<core1_params, core1, xmem, omem, wlog, calls, pub, magnitudes, uaf>>
    /\ UNCHANGED svars

\* The caller, holding the returned spectrum, runs the single-core
\* calculate_dtft on the same sample buffer.
Core0CalculateDtft(malloc_ok) ==
    /\ core0.pc = "ret"
    /\ ~magnitudes.called
    /\ magnitudes' = [called |-> TRUE, malloc_ok |-> malloc_ok,
                      ret |-> calculate_dtft(xmem[core0.x].data, core0.N,
                                             core0.num_points, malloc_ok)]
    /\ UNCHANGED <<core1_params, core0, core1, xmem, omem, wlog, calls, pub, observed, uaf>>
    /\ UNCHANGED svars

\* The caller frees the spectrum (when it got one) and the sample buffer.
CallerFree ==
    /\ core0.pc = "ret"
    /\ omem' = IF core0.complex_values # NULL
               THEN [omem EXCEPT ![core0.complex_values] = Dead] ELSE omem
    /\ wlog' = IF core0.complex_values # NULL
               THEN [wlog EXCEPT ![core0.complex_values] = << >>] ELSE wlog
    /\ xmem' = [xmem EXCEPT ![core0.x] = Dead]
    /\ magnitudes' = NoMagnitudes
    /\ core0' = Core0Idle
    /\ UNCHANGED <<core1_params, core1, calls, pub, observed, uaf>>
    /\ UNCHANGED svars

\* ========================================================= core1 (worker)
\* Mutation: the worker reports completion when it picks the job up,
\* before its bin loop.
Core1Pickup_done ==
    /\ core1.pc = "w_poll"
    /\ core1_params.signal # NULL
    /\ core1_params' = [core1_params EXCEPT !.done = TRUE]
    /\ core1' = [pc |-> "w_loop", k |-> core1_params.start_freq,
                 omega_den |-> core1_params.num_points, job |-> core1.job + 1]
    /\ UNCHANGED <<core0, xmem, omem, wlog, calls, pub, observed, magnitudes, uaf>>
    /\ UNCHANGED svars

\* while (!core1_params.signal) {...} left by reading signal != NULL; then
\* omega_scale = 2*pi / core1_params.num_points and k = start_freq.
Core1Pickup ==
    /\ core1.pc = "w_poll"
    /\ core1_params.signal # NULL
    /\ core1' = [pc |-> "w_loop", k |-> core1_params.start_freq,
                 omega_den |-> core1_params.num_points, job |-> core1.job + 1]
    /\ UNCHANGED <<core1_params, core0, xmem, omem, wlog, calls, pub, observed, magnitudes, uaf>>
    /\ UNCHANGED svars

\* One iteration of for (k = start_freq; k < core1_params.end_freq; k++):
\* every operand is read through core1_params.
Core1ComputeBin ==
    /\ core1.pc = "w_loop"
    /\ core1.k < core1_params.end_freq
    /\ LET sp == core1_params.signal
           op == core1_params.output
           ok == /\ sp # NULL /\ xmem[sp].live
                 /\ Len(xmem[sp].data) >= core1_params.signal_len
                 /\ op # NULL /\ omem[op].live
                 /\ core1.k >= 0 /\ Len(omem[op].data) >= 2 * core1.k + 2
       IN  IF ok
           THEN LET a == Core1_Bin(xmem[sp].data, core1_params.signal_len,
                                   core1.omega_den, core1.k)
                IN  /\ omem' = [omem EXCEPT ![op].data =
                                   [@ EXCEPT ![2 * core1.k + 1] = Stored(a.real_part),
                                             ![2 * core1.k + 2] = Stored(a.imag_part)]]
                    /\ wlog' = [wlog EXCEPT ![op][core1.k + 1] =
                                   Append(@, [by |-> "core1", job |-> core1.job])]
                    /\ uaf' = uaf
           ELSE /\ uaf' = TRUE
                /\ UNCHANGED <<omem, wlog>>
    /\ core1' = [core1 EXCEPT !.k = core1.k + 1]
    /\ UNCHANGED <<core1_params, core0, xmem, calls, pub, observed, magnitudes>>
    /\ UNCHANGED svars

\* Mutation: the worker's loop bound is off by one, done is set with the
\* last bin unwritten.
Core1SetDone_early ==
    /\ core1.pc = "w_loop"
    /\ ~(core1.k + 1 < core1_params.end_freq)
    /\ core1_params' = [core1_params EXCEPT !.done = TRUE]
    /\ core1' = [core1 EXCEPT !.pc = "w_clear"]
    /\ UNCHANGED <<core0, xmem, omem, wlog, calls, pub, observed, magnitudes, uaf>>
    /\ UNCHANGED svars

\* Loop exit, __dmb(); core1_params.done = true;
Core1SetDone ==
    /\ core1.pc = "w_loop"
    /\ ~(core1.k < core1_params.end_freq)
    /\ core1_params' = [core1_params EXCEPT !.done = TRUE]
    /\ core1' = [core1 EXCEPT !.pc = "w_clear"]
    /\ UNCHANGED <<core0, xmem, omem, wlog, calls, pub, observed, magnitudes, uaf>>
    /\ UNCHANGED svars

\* core1_params.signal = NULL; back to the top of while (true).
Core1ClearSignal ==
    /\ core1.pc = "w_clear"
    /\ core1_params' = [core1_params EXCEPT !.signal = NULL]
    /\ core1' = [core1 EXCEPT !.pc = "w_poll"]
    /\ UNCHANGED <<core0, xmem, omem, wlog, calls, pub, observed, magnitudes, uaf>>
    /\ UNCHANGED svars

\* signal is a plain (non-volatile, non-atomic) object that both cores
\* access: its store is not ordered against the volatile store of done by
\* the language, so a build may also emit the two stores in the other order.
Core1ClearSignalFirst ==
    /\ core1.pc = "w_loop"
    /\ ~(core1.k < core1_params.end_freq)
    /\ core1_params' = [core1_params EXCEPT !.signal = NULL]
    /\ core1' = [core1 EXCEPT !.pc = "w_done"]
    /\ UNCHANGED <<core0, xmem, omem, wlog, calls, pub, observed, magnitudes, uaf>>
    /\ UNCHANGED svars

Core1SetDoneLast ==
    /\ core1.pc = "w_done"
    /\ core1_params' = [core1_params EXCEPT !.done = TRUE]
    /\ core1' = [core1 EXCEPT !.pc = "w_poll"]
    /\ UNCHANGED <<core0, xmem, omem, wlog, calls, pub, observed, magnitudes, uaf>>
    /\ UNCHANGED svars

\* ================================================================= spec
Core0Next ==
    \/ \E xs \in SampleBuffers, K \in 0..MaxK, ok \in BOOLEAN : Core0Call(xs, K, ok)
    \/ Core0WriteSignalLen
    \/ Core0WriteStartFreq
    \/ Core0WriteEndFreq
    \/ Core0WriteNumPoints
    \/ Core0WriteOutput
    \/ Core0ClearDone
    \/ Core0Publish
    \/ Core0ComputeBin
    \/ Core0LoopExit
    \/ Core0WaitDone
    \/ \E ok \in BOOLEAN : Core0CalculateDtft(ok)
    \/ CallerFree

Core1Next ==
    \/ Core1Pickup
    \/ Core1ComputeBin
    \/ Core1SetDone
    \/ Core1ClearSignal
    \/ Core1ClearSignalFirst
    \/ Core1SetDoneLast

Next == Core0Next \/ Core1Next

Spec == Init /\ [][Next]_vars

TypeOK ==
    /\ core0.pc \in {"idle", "c_len", "c_start", "c_end", "c_np", "c_out",
                     "c_done", "c_signal", "c_loop", "c_wait", "ret"}
    /\ core1.pc \in {"w_poll", "w_loop", "w_clear", "w_done"}
    /\ core1_params.done \in BOOLEAN
    /\ core1_params.signal \in {NULL} \cup Ptrs
    /\ calls \in 0..MaxCalls

\* ============================================================ properties
Returned == core0.pc = "ret" /\ core0.complex_values # NULL

\* C1: whenever a call of calculate_dtft_complex returns a buffer, none of
\* its 2K slots still holds poison: every bin was written during that call,
\* by core0 or by the worker running that call's job, never by an earlier job.
C1_NoPoisonOnReturn ==
    Returned =>
        LET p == core0.complex_values
            K == core0.num_points
        IN  /\ omem[p].live
            /\ Len(omem[p].data) = 2 * K
            /\ \A i \in 1..(2 * K) : omem[p].data[i].written
            /\ \A b \in 1..K :
                  /\ wlog[p][b] # << >>
                  /\ \A j \in 1..Len(wlog[p][b]) : wlog[p][b][j].job = pub
            /\ ~uaf

\* A later call (not the first) has returned a spectrum of several bins.
C1_Witness ==
    /\ Returned
    /\ calls >= 2
    /\ pub >= 2
    /\ core0.num_points >= 2

\* C2: every call that has published a job eventually returns, the worker
\* picking the job up and running it to completion: while the producer
\* waits for done, the worker is running the job or the job is still in the
\* slot for it to pick up.  (In a state where neither holds no step of
\* either core is possible, so the call never returns however the cores
\* are scheduled.)
C2_PublishedJobCompletes ==
    (core0.pc = "c_wait" /\ ~core1_params.done) =>
        (core1.pc # "w_poll" \/ core1_params.signal # NULL)

\* C3: the worker's clear of the signal field for job i takes effect before
\* the producer publishes job i+1: while the clear is still pending, no
\* later job has been published.
C3_ClearBeforeNextPublish ==
    core1.pc = "w_clear" => pub = core1.job

\* C4: while the worker is reading a job it picked up, every field of
\* core1_params holds the value the producer wrote for that same job and
\* done is false.
C4_FieldsOfSameJob ==
    core1.pc = "w_loop" =>
        /\ core0.pc \in {"c_loop", "c_wait"}
        /\ core1.job = pub
        /\ core1_params.signal = core0.x
        /\ core1_params.signal_len = core0.N
        /\ core1_params.start_freq = core0.split_point
        /\ core1_params.end_freq = core0.num_points
        /\ core1_params.num_points = core0.num_points
        /\ core1_params.output = core0.complex_values
        /\ core1.omega_den = core0.num_points
        /\ core1_params.done = FALSE

\* The worker is in the middle of the second job, whose fields differ from
\* what the first job left in the slot.
C4_Witness ==
    /\ core1.pc = "w_loop"
    /\ pub >= 2
    /\ core1.k > core1_params.start_freq
    /\ core1.k < core1_params.end_freq

PublishedPcs == {"c_loop", "c_wait", "ret"}

\* C5: when done is true for a published job, the worker has written both
\* slots of every bin of [start_freq, end_freq); and the call returns only
\* when done is true.
C5_DoneAfterAllBins ==
    /\ (core0.pc \in PublishedPcs /\ core0.complex_values # NULL /\ core1_params.done) =>
          LET p == core1_params.output
          IN  \A k \in core1_params.start_freq..(core1_params.end_freq - 1) :
                 /\ omem[p].data[2 * k + 1].written
                 /\ omem[p].data[2 * k + 2].written
                 /\ \E j \in 1..Len(wlog[p][k + 1]) : wlog[p][k + 1][j].by = "core1"
    /\ Returned => core1_params.done

\* The worker finished a sub-range of two bins while core0 is still in its
\* own loop.
C5_Witness ==
    /\ core0.pc = "c_loop"
    /\ core1_params.done
    /\ core1_params.end_freq - core1_params.start_freq >= 2

FieldWritePcs == {"c_len", "c_start", "c_end", "c_np", "c_out", "c_done", "c_signal"}

\* C6: at most one job is in flight: the producer writes job fields or
\* publishes only when it has observed done = true for every job it
\* published before, and then the worker is not computing.
C6_OneJobInFlight ==
    /\ pub - observed \in {0, 1}
    /\ core0.pc \in FieldWritePcs =>
          /\ pub = observed
          /\ core1.pc # "w_loop"
          /\ core1.job = pub
          /\ (core0.pc # "c_signal" => core1_params.done)

\* The producer is overwriting the fields of the slot for a second job.
C6_Witness ==
    /\ core0.pc = "c_np"
    /\ pub >= 1
    /\ core1_params.num_points # core0.num_points

\* C7: core0 writes exactly the bins [0, K/2) and the worker exactly the
\* bins [K/2, K): no bin is written by the other core or twice, and on
\* return every bin has been written exactly once.
C7_SplitExact ==
    /\ \A p \in Ptrs : \A b \in 1..Len(wlog[p]) :
          /\ Len(wlog[p][b]) <= 1
          /\ \A j \in 1..Len(wlog[p][b]) :
                wlog[p][b][j].by =
                    (IF b - 1 < TruncDiv(Len(wlog[p]), 2) THEN "core0" ELSE "core1")
    /\ Returned =>
          /\ Len(wlog[core0.complex_values]) = core0.num_points
          /\ \A b \in 1..core0.num_points : Len(wlog[core0.complex_values][b]) = 1

\* A call with an odd number of bins, more than one, has returned.
C7_Witness ==
    /\ Returned
    /\ core0.num_points % 2 = 1
    /\ core0.num_points > 1

\* C8: for every bin k the pair the parallel call stored is the pair of
\* sums the serial per-bin accumulation forms for (x, N, 2*pi*k/K), and the
\* serial result magnitudes[k] is the magnitude of that pair.
C8_ParallelAgreesWithSerial ==
    (Returned /\ magnitudes.called /\ magnitudes.ret.ptr # NULL) =>
        LET p == core0.complex_values
            K == core0.num_points
            x == xmem[core0.x].data
        IN  /\ Len(magnitudes.ret.data) = K
            /\ \A k \in 0..(K - 1) :
                  LET re == omem[p].data[2 * k + 1]
                      im == omem[p].data[2 * k + 2]
                      s == Mag_Sums(x, core0.N, Angle(k, K))
                  IN  /\ re.written /\ im.written
                      /\ re.val = s.real_part
                      /\ im.val = s.imag_part
                      /\ magnitudes.ret.data[k + 1]
                            = sqrtf(re.val * re.val + im.val * im.val)

\* Both transforms ran on a buffer that exercises the unrolled group and the
\* remainder loop, and a bin computed by the worker is nonzero.
C8_Witness ==
    /\ Returned /\ magnitudes.called /\ magnitudes.ret.ptr # NULL
    /\ core0.N >= 5
    /\ core0.num_points >= 3
    /\ magnitudes.ret.data[core0.num_points] > 0
    /\ omem[core0.complex_values].data[2 * core0.num_points].val # 0

\* C9: the wait has no timeout or fallback: while done is false the
\* producer cannot leave the wait loop.
C9_WaitHasNoTimeout ==
    [][(core0.pc = "c_wait" /\ ~core1_params.done) => core0'.pc = "c_wait"]_vars

\* The producer is polling while the worker is still computing.
C9_Witness ==
    /\ core0.pc = "c_wait"
    /\ ~core1_params.done
    /\ core1.pc = "w_loop"

\* C10: when malloc fails, calculate_dtft and calculate_dtft_complex return
\* NULL; calculate_dtft_complex does so in its first step, leaving
\* core1_params untouched and publishing nothing.
C10_AllocFailure ==
    /\ [][(core0.pc = "idle" /\ core0'.pc # "idle" /\ ~omem'[calls'].live) =>
             /\ core0'.pc = "ret"
             /\ core0'.complex_values = NULL
             /\ core1_params' = core1_params
             /\ pub' = pub
             /\ core1' = core1]_vars
    /\ [](magnitudes.called /\ ~magnitudes.malloc_ok =>
             magnitudes.ret.ptr = NULL /\ magnitudes.ret.data = << >>)
    /\ [](core0.pc \in FieldWritePcs => omem[calls].live)

\* Both allocations failed, after an earlier job had used the slot.
C10_Witness ==
    /\ core0.pc = "ret"
    /\ core0.complex_values = NULL
    /\ pub >= 1
    /\ core1_params.output # NULL
    /\ magnitudes.called
    /\ ~magnitudes.malloc_ok

\* ------------------------------------- exact arithmetic of the pattern DTFT
\* process_pattern_return_value evaluates cosf and sinf only at multiples of
\* pi/40, so every number it computes lies in the ring Z[1/2, z] with z a
\* primitive 80th root of unity.  The model does not round: it carries each
\* number as its image under the ring homomorphism into the integers modulo
\* FieldP that sends z to Root80.  Sums and products are images of the exact
\* sums and products, and equal numbers have equal images.  An angle is an
\* integer number of steps of pi/40.
AngleSteps == 2 * 40

FieldP == 3 * AngleSteps + 1

RECURSIVE PowMod(_, _)
PowMod(b, e) ==
    IF e = 0 THEN 1
    ELSE LET h == PowMod(b, e \div 2)
         IN  (((h * h) % FieldP) * (IF e % 2 = 1 THEN b ELSE 1)) % FieldP

Inverse(a) == PowMod(a, FieldP - 2)

\* A primitive 80th root of unity modulo FieldP: the image of exp(j*pi/40).
Root80 ==
    CHOOSE g \in 2..(FieldP - 1) :
        /\ PowMod(g, AngleSteps \div 2) = FieldP - 1
        /\ PowMod(g, AngleSteps \div 5) # 1

\* The image of the imaginary unit j = exp(j*pi/2).
ImagUnit == PowMod(Root80, AngleSteps \div 4)

CosTable ==
    [m \in 0..(AngleSteps - 1) |->
        ((PowMod(Root80, m) + PowMod(Root80, AngleSteps - m)) * Inverse(2))
            % FieldP]

SinTable ==
    [m \in 0..(AngleSteps - 1) |->
        ((PowMod(Root80, m) + FieldP - PowMod(Root80, AngleSteps - m))
            * Inverse((2 * ImagUnit) % FieldP)) % FieldP]

cosf(angle) == CosTable[angle % AngleSteps]

sinf(angle) == SinTable[angle % AngleSteps]

\* ------------------------------------------------ send_data, repeat_pattern
\* (data >> i) & 1
Bit(data, i) == (data \div (2 ^ i)) % 2

\* The loops of this part run up to 256 times.  Each is written as the
\* iterations lo..hi-1 applied in order to acc, the range halved until it is
\* one iteration, and the first half evaluated before the second is entered.
Mid(lo, hi) == lo + ((hi - lo) \div 2)

\* The value of e, with v evaluated first.
Evaluated(v, e) == IF v = v THEN e ELSE e

\* A byte of a fresh malloc block that has not been stored to.
Indeterminate == 0 - 1

SIGNAL_GPIO == 2

RECEIVER_GPIO == 3

TX_ACTIVE_GPIO == 5

MIN_BITS == 1

MAX_BITS == 16

\* send_bit raising the clock before it drives the data line.
send_bit_late(gpio, bit) ==
    gpio \o << <<RECEIVER_GPIO, 1>>, <<SIGNAL_GPIO, bit>>, <<RECEIVER_GPIO, 0>> >>

\* send_bit: the gpio_put calls it adds to those made so far.
send_bit(gpio, bit) ==
    gpio \o << <<SIGNAL_GPIO, bit>>, <<RECEIVER_GPIO, 1>>, <<RECEIVER_GPIO, 0>> >>

\* for (i = num_bits - 1; i >= 0; i--) {
\*     bit = (data >> i) & 1; bits_sent[num_bits - i] = bit; send_bit(bit); }
\* (sequences are indexed from 1: element e of a C array is [e + 1]).
RECURSIVE Send_Loop(_, _, _, _)
Send_Loop(st, data, num_bits, i) ==
    IF i >= 0
    THEN LET bit == Bit(data, i)
             next == [bits_sent |-> [st.bits_sent EXCEPT
                                        ![num_bits - i + 1] = bit],
                      gpio |-> send_bit(st.gpio, bit)]
         IN  Evaluated(next, Send_Loop(next, data, num_bits, i - 1))
    ELSE st

\* send_data past its range check, with the block malloc returned: the
\* array it fills and the gpio_put calls it makes, in order.
send_data(data, num_bits) ==
    LET block == [j \in 1..(num_bits + 1) |-> Indeterminate]
        start == [bits_sent |-> [block EXCEPT ![1] = num_bits],
                  gpio |-> << <<TX_ACTIVE_GPIO, 1>> >>]
        sent == Send_Loop(start, data, num_bits, num_bits - 1)
    IN  [bits_sent |-> sent.bits_sent,
         gpio |-> sent.gpio \o << <<SIGNAL_GPIO, 0>>, <<TX_ACTIVE_GPIO, 0>> >>]

\* The array send_data returns: the length, then the bits, MSB first.
BitsSent(data, num_bits) == send_data(data, num_bits).bits_sent

\* The gpio_put calls of send_data and, per bit, of send_bit, in order.
GpioTrace(data, num_bits) == send_data(data, num_bits).gpio

\* repeat_pattern copying pattern[i] in place of pattern[i + 1]: the length
\* element is taken for the first sample.
repeat_pattern_nolen(pattern, repetitions) ==
    LET pattern_len == pattern[1]
        total_len == pattern_len * repetitions
    IN  [m \in 1..total_len |-> pattern[((m - 1) % pattern_len) + 1]]

\* The inner loop copying pattern[i] in place of pattern[i + 1].
RECURSIVE Repeat_Inner_lenbyte(_, _, _, _, _)
Repeat_Inner_lenbyte(buffer, pattern, pattern_len, rep, i) ==
    IF i < pattern_len
    THEN LET stored == [buffer EXCEPT ![rep * pattern_len + i + 1] =
                                          pattern[i + 1]]
         IN  Evaluated(stored,
                 Repeat_Inner_lenbyte(stored, pattern, pattern_len, rep, i + 1))
    ELSE buffer

\* for (i = 0; i < pattern_len; i++)
\*     buffer[rep * pattern_len + i] = pattern[i + 1];
\* (sequences are indexed from 1: element e of a C array is [e + 1]).
RECURSIVE Repeat_Inner(_, _, _, _, _)
Repeat_Inner(buffer, pattern, pattern_len, rep, i) ==
    IF i < pattern_len
    THEN LET stored == [buffer EXCEPT ![rep * pattern_len + i + 1] =
                                          pattern[i + 2]]
         IN  Evaluated(stored,
                 Repeat_Inner(stored, pattern, pattern_len, rep, i + 1))
    ELSE buffer

\* for (rep = 0; rep < repetitions; rep++) { the inner loop }
RECURSIVE Repeat_Outer(_, _, _, _, _)
Repeat_Outer(buffer, pattern, pattern_len, repetitions, rep) ==
    IF rep < repetitions
    THEN LET copied == Repeat_Inner(buffer, pattern, pattern_len, rep, 0)
         IN  Evaluated(copied,
                 Repeat_Outer(copied, pattern, pattern_len, repetitions,
                              rep + 1))
    ELSE buffer

repeat_pattern(pattern, repetitions) ==
    LET pattern_len == pattern[1]
        total_len == pattern_len * repetitions
        buffer == [m \in 1..total_len |-> Indeterminate]
    IN  Repeat_Outer(buffer, pattern, pattern_len, repetitions, 0)

\* --------------------------------------------- the 41-point pattern DTFT
NUM_FREQUENCIES == 41

REPETITIONS == 10

RECURSIVE Pattern_Sums(_, _, _, _, _)
Pattern_Sums(signal_buffer, omega, lo, hi, acc) ==
    IF lo >= hi THEN acc
    ELSE IF hi = lo + 1
    THEN LET n == lo
             angle == (0 - omega) * n
         IN  [real_part |-> (acc.real_part
                               + signal_buffer[n + 1] * cosf(angle))
                            % FieldP,
              imag_part |-> (acc.imag_part
                               + signal_buffer[n + 1] * sinf(angle))
                            % FieldP]
    ELSE LET first == Pattern_Sums(signal_buffer, omega, lo, Mid(lo, hi),
                                   acc)
         IN  Evaluated(first,
                 Pattern_Sums(signal_buffer, omega, Mid(lo, hi), hi, first))

\* complex_values[2k], complex_values[2k+1] for k = 0..40; omega = pi*k/40 is
\* k steps.
Pattern_Complex(signal_buffer, total_len) ==
    [i \in 1..NUM_FREQUENCIES |->
        Pattern_Sums(signal_buffer, i - 1, 0, total_len,
                     [real_part |-> 0, imag_part |-> 0])]

Pattern_Magnitudes(complex_values) ==
    [i \in 1..NUM_FREQUENCIES |->
        LET real == complex_values[i].real_part
            imag == complex_values[i].imag_part
        IN  (real * real + imag * imag) % FieldP]

\* ------------------------------------------------------ the dictionary
\* lib/dtft_lookup_n10.h is generated offline: entry V is the squared
\* magnitude spectrum of the 8 bits of V, MSB first, repeated 10 times, on
\* the 41-point grid, by the same replicate -> DTFT -> squared-magnitude
\* pipeline.
DICT_BITS == 8

DICT_ENTRIES == 2 ^ DICT_BITS

dtft_lookup_n10 ==
    [value \in 0..(DICT_ENTRIES - 1) |->
        Pattern_Magnitudes(
            Pattern_Complex(
                repeat_pattern(BitsSent(value, DICT_BITS), REPETITIONS),
                DICT_BITS * REPETITIONS))]

\* ------------------------------------------------ reconstruct_pixel_value
\* The difference is taken between the images of the two magnitudes: it is
\* zero exactly when the images are equal.
RECURSIVE Distance_Sum(_, _, _, _, _)
Distance_Sum(spectrum1, spectrum2, lo, hi, sum) ==
    IF lo >= hi THEN sum
    ELSE IF hi = lo + 1
    THEN LET diff == spectrum1[lo + 1] - spectrum2[lo + 1]
         IN  sum + diff * diff
    ELSE LET first == Distance_Sum(spectrum1, spectrum2, lo, Mid(lo, hi),
                                   sum)
         IN  Evaluated(first,
                 Distance_Sum(spectrum1, spectrum2, Mid(lo, hi), hi, first))

calculate_euclidean_distance(spectrum1, spectrum2, num_points) ==
    Distance_Sum(spectrum1, spectrum2, 0, num_points, 0)

\* Larger than every distance between two spectra of images.
INFINITY == NUM_FREQUENCIES * FieldP * FieldP + 1

\* matches[value].distance, also the distance of the first loop: both loops
\* call calculate_euclidean_distance on the same arguments.
Distances(computed_magnitudes) ==
    [value \in 0..(DICT_ENTRIES - 1) |->
        calculate_euclidean_distance(computed_magnitudes,
                                     dtft_lookup_n10[value],
                                     NUM_FREQUENCIES)]

\* The same loop with <= in place of <.
RECURSIVE BestMatch_Loop_last(_, _, _, _)
BestMatch_Loop_last(distances, lo, hi, best) ==
    IF lo >= hi THEN best
    ELSE IF hi = lo + 1
    THEN IF distances[lo] <= best.min_distance
         THEN [min_distance |-> distances[lo], best_match |-> lo]
         ELSE best
    ELSE LET first == BestMatch_Loop_last(distances, lo, Mid(lo, hi), best)
         IN  Evaluated(first,
                 BestMatch_Loop_last(distances, Mid(lo, hi), hi, first))

RECURSIVE BestMatch_Loop(_, _, _, _)
BestMatch_Loop(distances, lo, hi, best) ==
    IF lo >= hi THEN best
    ELSE IF hi = lo + 1
    THEN IF distances[lo] < best.min_distance
         THEN [min_distance |-> distances[lo], best_match |-> lo]
         ELSE best
    ELSE LET first == BestMatch_Loop(distances, lo, Mid(lo, hi), best)
         IN  Evaluated(first,
                 BestMatch_Loop(distances, Mid(lo, hi), hi, first))

BestMatch(distances) ==
    BestMatch_Loop(distances, 0, DICT_ENTRIES,
                   [min_distance |-> INFINITY, best_match |-> 0])

TOP_MATCHES == 5

\* The inner loop with the comparison reversed.
RECURSIVE Sort_Inner_reversed(_, _, _, _)
Sort_Inner_reversed(matches, i, lo, hi) ==
    IF lo >= hi THEN matches
    ELSE IF hi = lo + 1
    THEN LET j == lo
         IN  IF matches[j].distance > matches[i].distance
             THEN [matches EXCEPT ![i] = matches[j], ![j] = matches[i]]
             ELSE matches
    ELSE LET first == Sort_Inner_reversed(matches, i, lo, Mid(lo, hi))
         IN  Evaluated(first, Sort_Inner_reversed(first, i, Mid(lo, hi), hi))

\* The inner loop storing matches[j] in matches[i] without the swap.
RECURSIVE Sort_Inner_copy(_, _, _, _)
Sort_Inner_copy(matches, i, lo, hi) ==
    IF lo >= hi THEN matches
    ELSE IF hi = lo + 1
    THEN LET j == lo
         IN  IF matches[j].distance < matches[i].distance
             THEN [matches EXCEPT ![i] = matches[j]]
             ELSE matches
    ELSE LET first == Sort_Inner_copy(matches, i, lo, Mid(lo, hi))
         IN  Evaluated(first, Sort_Inner_copy(first, i, Mid(lo, hi), hi))

RECURSIVE Sort_Inner(_, _, _, _)
Sort_Inner(matches, i, lo, hi) ==
    IF lo >= hi THEN matches
    ELSE IF hi = lo + 1
    THEN LET j == lo
         IN  IF matches[j].distance < matches[i].distance
             THEN [matches EXCEPT ![i] = matches[j], ![j] = matches[i]]
             ELSE matches
    ELSE LET first == Sort_Inner(matches, i, lo, Mid(lo, hi))
         IN  Evaluated(first, Sort_Inner(first, i, Mid(lo, hi), hi))

RECURSIVE Sort_Outer(_, _)
Sort_Outer(matches, i) ==
    IF i >= TOP_MATCHES THEN matches
    ELSE LET pass == Sort_Inner(matches, i, i + 1, DICT_ENTRIES)
         IN  Evaluated(pass, Sort_Outer(pass, i + 1))

\* The array matches[256] as the second loop fills it.
Matches(distances) ==
    [value \in 0..(DICT_ENTRIES - 1) |->
        [value |-> value, distance |-> distances[value]]]

\* The array matches[256] after the partial sort.
SortedMatches(distances) == Sort_Outer(Matches(distances), 0)

\* The five entries the function prints after its partial sort.
TopMatches(distances) ==
    LET sorted == SortedMatches(distances)
    IN  [i \in 1..TOP_MATCHES |-> sorted[i - 1]]

\* ret is the returned byte; read tells whether the spectrum and the
\* dictionary were read; printed is the shortlist.
reconstruct_pixel_value(computed_magnitudes, num_frequencies) ==
    IF num_frequencies # NUM_FREQUENCIES
    THEN [ret |-> 0, read |-> FALSE, min_distance |-> INFINITY,
          printed |-> << >>]
    ELSE LET distances == Distances(computed_magnitudes)
             best == BestMatch(distances)
         IN  [ret |-> best.best_match, read |-> TRUE,
              min_distance |-> best.min_distance,
              printed |-> TopMatches(distances)]

\* ---------------------------------------- specification of the classifier
\* Spectra handed to reconstruct_pixel_value: a dictionary entry, or one with
\* a single bin replaced.
PerturbBins == {1, 11}

PerturbValues == {0, 1}

Spectra ==
    {dtft_lookup_n10[v] : v \in 0..(DICT_ENTRIES - 1)}
    \cup {[dtft_lookup_n10[v] EXCEPT ![k] = d] :
             v \in 0..(DICT_ENTRIES - 1), k \in PerturbBins,
             d \in PerturbValues}

FrequencyCounts == {NUM_FREQUENCIES - 1, NUM_FREQUENCIES, NUM_FREQUENCIES + 1}

ClassCall(computed_magnitudes, num_frequencies) ==
    /\ cls.pc = "idle"
    /\ cls' = [pc |-> "called", computed_magnitudes |-> computed_magnitudes,
               num_frequencies |-> num_frequencies]
    /\ UNCHANGED <<dvars, pipe, lut, rpt>>

ClassReturn ==
    /\ cls.pc = "called"
    /\ cls' = [pc |-> "returned",
               computed_magnitudes |-> cls.computed_magnitudes,
               num_frequencies |-> cls.num_frequencies,
               result |-> reconstruct_pixel_value(cls.computed_magnitudes,
                                                  cls.num_frequencies)]
    /\ UNCHANGED <<dvars, pipe, lut, rpt>>

ClassNext ==
    \/ \E m \in Spectra, nf \in FrequencyCounts : ClassCall(m, nf)
    \/ ClassReturn

ClassSpec == Init /\ [][ClassNext]_vars

\* ---------------------------- specification of the pattern pipeline
\* One run of send_data(data, num_bits) followed by
\* process_pattern_return_value on the array it returned.
\* Inputs: every byte sent as 8 bits, and a few words sent with every
\* num_bits from 0 to 17.
PipeBytes == 0..(DICT_ENTRIES - 1)

PipeWords == {0, 79, 511, 43690}

PipeNumBits == (MIN_BITS - 1)..(MAX_BITS + 1)

\* The two functions that process the array send_data returned.
PipeFunctions == {"process_pattern_return_value", "process_pattern"}

\* The bytes go through process_pattern_return_value, the words through
\* either function.
PipeInputs ==
    {<<d, DICT_BITS, "process_pattern_return_value">> : d \in PipeBytes}
    \cup {<<d, nb, fn>> : d \in PipeWords, nb \in PipeNumBits,
                          fn \in PipeFunctions}

\* The value a run of process_pattern, which returns void, hands back.
Void == 0 - 2

\* What the run returns: process_pattern_return_value the value, and
\* process_pattern nothing.
PipeReturn(fn, value, classified) ==
    [returned |-> TRUE, classified |-> classified,
     value |-> IF fn = "process_pattern" THEN Void ELSE value]

\* Failing to free signal_buffer when the malloc of complex_values fails.
Frees_leak(complex_ok, magnitudes_ok) ==
    IF ~complex_ok THEN << >>
    ELSE (IF magnitudes_ok THEN <<"magnitudes">> ELSE << >>)
             \o <<"complex_values", "signal_buffer">>

\* The free calls of process_pattern / process_pattern_return_value, in
\* order, on the path taken: complex_values NULL (free(signal_buffer) and
\* return), or complex_values allocated and magnitudes allocated or not.
Frees(complex_ok, magnitudes_ok) ==
    IF ~complex_ok THEN <<"signal_buffer">>
    ELSE (IF magnitudes_ok THEN <<"magnitudes">> ELSE << >>)
             \o <<"complex_values", "signal_buffer">>

\* What a read through a NULL signal_buffer can deliver in every byte.
NullReads == {0, 255}

\* send_data.  With malloc failing, bits_sent[0] = num_bits stores through
\* NULL: the run traps, or the stores are lost and NULL is returned.
PipeSendData(data, num_bits, fn, malloc_ok, trap) ==
    /\ pipe.pc = "idle"
    /\ pipe' =
         IF num_bits < MIN_BITS \/ num_bits > MAX_BITS
         THEN [pipe EXCEPT !.pc = "sent", !.data = data, !.fn = fn,
                           !.num_bits = num_bits]
         ELSE IF malloc_ok
         THEN [pipe EXCEPT !.pc = "sent", !.data = data, !.fn = fn,
                           !.num_bits = num_bits,
                           !.bits_sent = PipeBuf(BitsSent(data, num_bits)),
                           !.gpio = GpioTrace(data, num_bits)]
         ELSE IF trap
         THEN [pipe EXCEPT !.pc = "fault", !.data = data, !.fn = fn,
                           !.num_bits = num_bits,
                           !.failed = {"bits_sent"}]
         ELSE [pipe EXCEPT !.pc = "sent", !.data = data, !.fn = fn,
                           !.num_bits = num_bits,
                           !.gpio = GpioTrace(data, num_bits),
                           !.failed = {"bits_sent"}]
    /\ UNCHANGED <<dvars, cls, lut, rpt>>

\* process_pattern / process_pattern_return_value up to the return of
\* repeat_pattern.  With malloc failing, repeat_pattern stores through NULL:
\* the run traps, or the stores are lost and NULL is returned.
PipeRepeatPattern(malloc_ok, trap) ==
    /\ pipe.pc = "sent"
    /\ pipe' =
         IF pipe.bits_sent.ptr = NULL
         THEN [pipe EXCEPT !.pc = "returned",
                           !.ret = PipeReturn(pipe.fn, 0, FALSE)]
         ELSE LET pattern_len == pipe.bits_sent.data[1]
              IN  IF malloc_ok
                  THEN [pipe EXCEPT
                          !.pc = "repeated",
                          !.allocated = @ \cup {"signal_buffer"},
                          !.signal_buffer =
                              PipeBuf(repeat_pattern(pipe.bits_sent.data,
                                                     REPETITIONS)),
                          !.total_len = pattern_len * REPETITIONS]
                  ELSE IF trap
                  THEN [pipe EXCEPT !.pc = "fault",
                                    !.failed = @ \cup {"signal_buffer"}]
                  ELSE [pipe EXCEPT !.pc = "repeated",
                                    !.total_len = pattern_len * REPETITIONS,
                                    !.failed = @ \cup {"signal_buffer"}]
    /\ UNCHANGED <<dvars, cls, lut, rpt>>

\* malloc of complex_values and the DTFT loop.  With signal_buffer NULL the
\* loop reads through NULL: the run traps, or reads whatever lies there;
\* process_pattern reads signal_buffer already before the malloc, to print
\* it.
PipeDtft(malloc_ok, trap, null_read) ==
    /\ pipe.pc = "repeated"
    /\ pipe' =
         IF /\ pipe.fn = "process_pattern" /\ pipe.signal_buffer.ptr = NULL
            /\ pipe.total_len > 0 /\ trap
         THEN [pipe EXCEPT !.pc = "fault"]
         ELSE IF ~malloc_ok
         THEN [pipe EXCEPT !.pc = "returned",
                           !.failed = @ \cup {"complex_values"},
                           !.freed = @ \o Frees(FALSE, FALSE),
                           !.ret = PipeReturn(pipe.fn, 0, FALSE)]
         ELSE IF pipe.signal_buffer.ptr = NULL
         THEN IF trap
              THEN [pipe EXCEPT !.pc = "fault"]
              ELSE [pipe EXCEPT
                      !.pc = "dtft",
                      !.allocated = @ \cup {"complex_values"},
                      !.complex_values =
                          Pattern_Complex(
                              [m \in 1..pipe.total_len |-> null_read],
                              pipe.total_len)]
         ELSE [pipe EXCEPT
                 !.pc = "dtft",
                 !.allocated = @ \cup {"complex_values"},
                 !.complex_values =
                     Pattern_Complex(pipe.signal_buffer.data,
                                     pipe.total_len)]
    /\ UNCHANGED <<dvars, cls, lut, rpt>>

\* malloc of magnitudes, the squared magnitudes, the classification, the
\* frees and the return.
PipeClassify(malloc_ok) ==
    /\ pipe.pc = "dtft"
    /\ pipe' =
         IF malloc_ok
         THEN LET magnitudes_41 == Pattern_Magnitudes(pipe.complex_values)
                  result == reconstruct_pixel_value(magnitudes_41,
                                                    NUM_FREQUENCIES)
              IN  [pipe EXCEPT
                     !.pc = "returned",
                     !.allocated = @ \cup {"magnitudes"},
                     !.freed = @ \o Frees(TRUE, TRUE),
                     !.ret = PipeReturn(pipe.fn, result.ret, TRUE) @@
                             [min_distance |-> result.min_distance]]
         ELSE [pipe EXCEPT !.pc = "returned",
                           !.failed = @ \cup {"magnitudes"},
                           !.freed = @ \o Frees(TRUE, FALSE),
                           !.ret = PipeReturn(pipe.fn, 0, FALSE)]
    /\ UNCHANGED <<dvars, cls, lut, rpt>>

PipeNext ==
    \/ \E in \in PipeInputs, malloc_ok \in BOOLEAN, trap \in BOOLEAN :
           PipeSendData(in[1], in[2], in[3], malloc_ok, trap)
    \/ \E malloc_ok \in BOOLEAN, trap \in BOOLEAN :
           PipeRepeatPattern(malloc_ok, trap)
    \/ \E malloc_ok \in BOOLEAN, trap \in BOOLEAN, null_read \in NullReads :
           PipeDtft(malloc_ok, trap, null_read)
    \/ \E malloc_ok \in BOOLEAN : PipeClassify(malloc_ok)

PipeSpec == Init /\ [][PipeNext]_vars

\* ------------------------------------- properties of the pattern pipeline
\* C11: every allocation failure in the pattern pipeline (the bit array of
\* send_data, the buffer of repeat_pattern, the complex and the magnitude
\* buffers of process_pattern_return_value) is propagated as an explicit
\* failure: the run never stores or reads through the NULL it got, and a
\* run in which an allocation failed never returns a value that is a byte
\* 0..255, which a caller could take for a classified byte.
C11_AllocFailureIsExplicit ==
    /\ pipe.pc # "fault"
    /\ (pipe.pc = "returned" /\ pipe.failed # {})
           => pipe.ret.value \notin 0..(DICT_ENTRIES - 1)

\* ------------------------------------------- properties of the empty call
\* C12: a call of calculate_dtft_complex with K = 0 or with N = 0 whose
\* allocation succeeded neither crashes nor hangs: it touches no sample or
\* output element outside its buffers, and while it waits for done the
\* worker is running its job or the job is still in the slot for the worker
\* to pick up, so the handoff completes and the call returns.
EmptyCall ==
    /\ core0.pc \notin {"idle", "ret"}
    /\ (core0.num_points = 0 \/ core0.N = 0)

C12_EmptyCallReturns ==
    EmptyCall =>
        /\ ~uaf
        /\ (core0.pc = "c_wait" /\ ~core1_params.done)
               => (core1.pc # "w_poll" \/ core1_params.signal # NULL)

\* A run that sent a byte as 8 bits, got every allocation and returned.
ByteClassified ==
    /\ pipe.pc = "returned"
    /\ pipe.fn = "process_pattern_return_value"
    /\ pipe.failed = {}
    /\ pipe.num_bits = DICT_BITS
    /\ pipe.data \in PipeBytes

\* C13: for every byte V in 0..255, sending V as 8 bits MSB first,
\* repeating the pattern 10 times, taking the squared magnitudes of its
\* DTFT on the 41-point grid and classifying them against the dictionary
\* generated by the same pipeline yields V, with distance 0.
C13_ByteRoundTrip ==
    ByteClassified =>
        /\ pipe.ret.value = pipe.data
        /\ pipe.ret.min_distance = 0

\* C14: the all-zero pattern, repeated 10 times, classifies to 0x00 with
\* distance 0: its spectrum is zero in all 41 bins, and the reference
\* spectrum of every nonzero byte differs from it, so that no other
\* dictionary entry is at distance 0.
C14_ZeroPattern ==
    (ByteClassified /\ pipe.data = 0) =>
        LET spectrum == Pattern_Magnitudes(pipe.complex_values)
        IN  /\ pipe.ret.value = 0
            /\ pipe.ret.min_distance = 0
            /\ \A i \in 1..NUM_FREQUENCIES : spectrum[i] = 0
            /\ \A v \in 1..(DICT_ENTRIES - 1) :
                   /\ dtft_lookup_n10[v] # spectrum
                   /\ calculate_euclidean_distance(spectrum,
                          dtft_lookup_n10[v], NUM_FREQUENCIES) > 0

C14_Witness ==
    /\ ByteClassified
    /\ pipe.data = 0
    /\ pipe.signal_buffer.data = [m \in 1..(DICT_BITS * REPETITIONS) |-> 0]
    /\ pipe.ret.value = 0

\* ------------------------------------------- properties of the classifier
\* A call of reconstruct_pixel_value with 41 frequencies that has returned.
Classified ==
    /\ cls.pc = "returned"
    /\ cls.num_frequencies = NUM_FREQUENCIES

\* The squared Euclidean distance of the call's spectrum to entry v.
DistanceTo(v) ==
    calculate_euclidean_distance(cls.computed_magnitudes, dtft_lookup_n10[v],
                                 NUM_FREQUENCIES)

\* C15: reconstruct_pixel_value returns the byte whose dictionary entry has
\* the minimum squared Euclidean distance to the spectrum over all 256
\* entries; among entries at that minimum it returns the lowest byte.
C15_MinimumDistanceLowestByte ==
    Classified =>
        LET best == cls.result.ret
        IN  /\ best \in 0..(DICT_ENTRIES - 1)
            /\ cls.result.min_distance = DistanceTo(best)
            /\ \A v \in 0..(DICT_ENTRIES - 1) :
                   /\ DistanceTo(best) <= DistanceTo(v)
                   /\ DistanceTo(v) = DistanceTo(best) => best <= v

\* A returned call in which a higher byte ties with the returned one and the
\* minimum is not 0.
C15_Witness ==
    /\ Classified
    /\ cls.result.min_distance > 0
    /\ \E v \in 0..(DICT_ENTRIES - 1) :
           /\ v > cls.result.ret
           /\ DistanceTo(v) = cls.result.min_distance

\* C16: called with num_frequencies other than 41, reconstruct_pixel_value
\* reads neither the spectrum nor the dictionary and returns a failure value
\* that is none of the bytes 0..255.
C16_WrongCountRejected ==
    (cls.pc = "returned" /\ cls.num_frequencies # NUM_FREQUENCIES) =>
        /\ ~cls.result.read
        /\ cls.result.ret \notin 0..(DICT_ENTRIES - 1)

\* The shortlist the call printed.
Shortlist == cls.result.printed

\* C17: the shortlist has exactly 5 entries, each a byte with its distance,
\* no byte twice, in non-decreasing order of distance, and they are 5
\* smallest of the 256: no byte outside it is closer than its last entry.
C17_ShortlistFiveSmallest ==
    Classified =>
        /\ DOMAIN Shortlist = 1..TOP_MATCHES
        /\ \A i \in 1..TOP_MATCHES :
               /\ Shortlist[i].value \in 0..(DICT_ENTRIES - 1)
               /\ Shortlist[i].distance = DistanceTo(Shortlist[i].value)
        /\ \A i, j \in 1..TOP_MATCHES :
               i < j => /\ Shortlist[i].value # Shortlist[j].value
                        /\ Shortlist[i].distance <= Shortlist[j].distance
        /\ \A v \in 0..(DICT_ENTRIES - 1) :
               (\A i \in 1..TOP_MATCHES : Shortlist[i].value # v)
                   => DistanceTo(v) >= Shortlist[TOP_MATCHES].distance

\* A shortlist with three different distances.
C17_Witness ==
    /\ Classified
    /\ Shortlist[1].distance < Shortlist[3].distance
    /\ Shortlist[3].distance < Shortlist[TOP_MATCHES].distance

C19_ClassifiedUnderDictionaryParameters ==
    (pipe.pc = "returned" /\ pipe.failed = {} /\ pipe.ret.classified) =>
        /\ pipe.bits_sent.data[1] = DICT_BITS
        /\ pipe.total_len = DICT_BITS * REPETITIONS
        /\ Len(pipe.complex_values) = NUM_FREQUENCIES

\* ------------------------------------------- specification of the lookup
\* fast_sin / fast_cos on angles of any magnitude.  The angle is
\* +-2*pi*(turns + num/den) with 0 <= num < den, so that
\* scaled = angle * LUT_SCALE = +-(turns * LUT_SIZE + num * LUT_SIZE / den).
\* Its truncation can exceed an int; it is carried as sign and magnitude
\* hi * WORD + lo with 0 <= lo < WORD.
WORD == 2 ^ 16

INT_MAX == (2 ^ 30 - 1) + 2 ^ 30

INT_MIN == (0 - INT_MAX) - 1

Truncated(neg, turns, num, den) ==
    LET per == WORD \div LUT_SIZE
    IN  [neg |-> neg,
         hi |-> turns \div per,
         lo |-> (turns % per) * LUT_SIZE + (num * LUT_SIZE) \div den]

\* The truncated value is one an int can hold.
InIntRange(w) ==
    \/ w.hi < WORD \div 2
    \/ w.neg /\ w.hi = WORD \div 2 /\ w.lo = 0

\* (int)scaled.  The conversion is undefined when the truncated value is
\* not in the range of int; out_of_range is what the conversion then
\* delivers.
FloatToInt(w, out_of_range) ==
    IF InIntRange(w)
    THEN IF w.neg THEN (0 - w.hi) * WORD - w.lo ELSE w.hi * WORD + w.lo
    ELSE out_of_range

\* What an out-of-range conversion delivers: the value saturates (the
\* soft-float conversion of the Cortex-M0+) or is INT_MIN.
OutOfRange(w) == {IF w.neg THEN INT_MIN ELSE INT_MAX, INT_MIN}

\* The truncated scaled angle modulo LUT_SIZE.
TruncatedModLutSize(w) ==
    IF w.neg THEN (LUT_SIZE - (w.lo % LUT_SIZE)) % LUT_SIZE
    ELSE w.lo % LUT_SIZE

LutFunctions == {"fast_sin", "fast_cos"}

LutTurns == {0, 1, 3, 2 ^ 21 - 1, 2 ^ 21, 2 ^ 21 + 1, 2 ^ 22}

LutDen == 40

\* frac = scaled - index, index being the converted value before masking:
\* whole_hi * WORD + whole_lo (with 0 <= whole_lo < WORD) plus num / den.
Frac(w, num, den, converted) ==
    LET sign == IF w.neg THEN 0 - 1 ELSE 1
        lo == sign * w.lo - (converted % WORD)
    IN  [whole_hi |-> (sign * w.hi - (converted \div WORD)) + (lo \div WORD),
         whole_lo |-> lo % WORD,
         num |-> sign * ((num * LUT_SIZE) % den),
         den |-> den]

\* sin_lut for fast_sin, cos_lut for fast_cos.
LutEntry(fn, i) == IF fn = "fast_sin" THEN sin_lut(i) ELSE cos_lut(i)

\* lut[index] + frac * (lut[next_index] - lut[index]), in units of
\* 1/(den * LutOne): base + den * delta * (whole_hi * WORD + whole_lo).
Interpolated(fn, index, next_index, frac) ==
    LET delta == LutEntry(fn, next_index) - LutEntry(fn, index)
    IN  [base |-> frac.den * LutEntry(fn, index) + frac.num * delta,
         delta |-> delta,
         whole_hi |-> frac.whole_hi,
         whole_lo |-> frac.whole_lo]

\* One call of fast_sin or fast_cos.
LutLookup(fn, neg, turns, num, out_of_range) ==
    /\ lut.pc = "idle"
    /\ LET w == Truncated(neg, turns, num, LutDen)
           converted == FloatToInt(w, out_of_range)
           frac == Frac(w, num, LutDen, converted)
           index == MaskIndex(converted)
           next_index == MaskIndex(index + 1)
       IN  lut' = [pc |-> "done", fn |-> fn, truncated |-> w,
                   converted |-> converted, frac |-> frac, index |-> index,
                   next_index |-> next_index,
                   result |-> Interpolated(fn, index, next_index, frac)]
    /\ UNCHANGED <<dvars, pipe, cls, rpt>>

LutNext ==
    \E fn \in LutFunctions, neg \in BOOLEAN, turns \in LutTurns,
       num \in 0..(LutDen - 1) :
        \E out_of_range \in OutOfRange(Truncated(neg, turns, num, LutDen)) :
            LutLookup(fn, neg, turns, num, out_of_range)

LutSpec == Init /\ [][LutNext]_vars

\* C20: fast_sin and fast_cos map every angle, positive or negative and of
\* any magnitude, to indices inside the table: index and next_index lie in
\* 0..LUT_SIZE-1, and index is the truncated scaled angle modulo LUT_SIZE.
C20_IndexIsTruncatedAngle ==
    lut.pc = "done" =>
        /\ lut.index \in 0..(LUT_SIZE - 1)
        /\ lut.next_index \in 0..(LUT_SIZE - 1)
        /\ lut.index = TruncatedModLutSize(lut.truncated)

\* The blend weight of the lookup lies in [0, 1).
FracInUnitInterval ==
    /\ lut.frac.whole_hi = 0
    /\ lut.frac.whole_lo = 0
    /\ lut.frac.num >= 0
    /\ lut.frac.num < lut.frac.den

\* The value returned lies between the entry at index and the entry at
\* next_index.
ResultBetweenEntries ==
    LET a == lut.frac.den * LutEntry(lut.fn, lut.index)
        b == lut.frac.den * LutEntry(lut.fn, lut.next_index)
    IN  \/ lut.result.delta = 0
        \/ /\ lut.result.whole_hi = 0
           /\ lut.result.whole_lo = 0
           /\ \/ a <= lut.result.base /\ lut.result.base <= b
              \/ b <= lut.result.base /\ lut.result.base <= a

\* C21: fast_sin and fast_cos return a linear blend of the table entry at
\* the masked index and the entry at the next masked index: the weight
\* frac = scaled - trunc(scaled) lies in [0, 1), so the result lies between
\* the two entries, for every angle, the negative angles -omega*n included.
\* (Stated for the angles whose scaled value an int can hold.)
C21_BlendBetweenEntries ==
    (lut.pc = "done" /\ InIntRange(lut.truncated)) =>
        /\ FracInUnitInterval
        /\ ResultBetweenEntries

\* ------------------------------------------ properties of the DTFT kernels
\* The sums a loop taking one sample at a time forms for x[0..N-1]: sample n
\* enters once, with angle n * (-omega).
RECURSIVE OneAtATime(_, _, _, _)
OneAtATime(x, N, omega, n) ==
    IF n >= N THEN [real_part |-> 0, imag_part |-> 0]
    ELSE LET angle == AngleScale(n, AngleNeg(omega))
             rest == OneAtATime(x, N, omega, n + 1)
         IN  [real_part |-> At(x, n) * fast_cos(angle) + rest.real_part,
              imag_part |-> At(x, n) * fast_sin(angle) + rest.imag_part]

\* C22: for every N >= 0, multiple of 4 or not, the 4-way unrolled loop
\* plus the remainder loop of the kernels takes each sample x[n], n in
\* [0, N), exactly once with angle n * (-omega): the loops end with n = N
\* and angle = N * (-omega), read no index >= N, and their sums are those of
\* a loop taking one sample at a time, in compute_dtft_magnitude and in both
\* bin loops of calculate_dtft_complex.
C22_UnrolledEqualsOneAtATime ==
    (Returned /\ magnitudes.called /\ magnitudes.ret.ptr # NULL) =>
        LET K == core0.num_points
            N == core0.N
            x == xmem[core0.x].data
        IN  \A k \in 0..(K - 1) :
                LET omega == Angle(k, K)
                    ref == OneAtATime(x, N, omega, 0)
                    s == Mag_Sums(x, N, omega)
                    c0 == Core0_Bin(x, N, K, k)
                    c1 == Core1_Bin(x, N, K, k)
                IN  /\ s.n = N /\ c0.n = N /\ c1.n = N
                    /\ N <= Len(x)
                    /\ s.angle = AngleScale(N, AngleNeg(omega))
                    /\ s.real_part = ref.real_part
                    /\ s.imag_part = ref.imag_part
                    /\ c0.real_part = ref.real_part
                    /\ c0.imag_part = ref.imag_part
                    /\ c1.real_part = ref.real_part
                    /\ c1.imag_part = ref.imag_part
                    /\ magnitudes.ret.data[k + 1]
                          = sqrtf(ref.real_part * ref.real_part
                                    + ref.imag_part * ref.imag_part)
                    /\ omem[core0.complex_values].data[2 * k + 1].val
                          = ref.real_part
                    /\ omem[core0.complex_values].data[2 * k + 2].val
                          = ref.imag_part

\* Both transforms returned for a buffer with one full group of 4 and a
\* remainder sample that is 1, and a bin with a nonzero angle step is
\* nonzero.
C22_Witness ==
    /\ Returned /\ magnitudes.called /\ magnitudes.ret.ptr # NULL
    /\ core0.N > 4
    /\ core0.N % 4 # 0
    /\ At(xmem[core0.x].data, core0.N - 1) = 1
    /\ core0.num_points >= 2
    /\ magnitudes.ret.data[2] > 0

\* ------------------------------------- properties of the buffers' lifetime
\* The worker is about to run an iteration of its bin loop: the only step in
\* which it reads the signal buffer and writes the output buffer.
WorkerWillAccess == core1.pc = "w_loop" /\ core1.k < core1_params.end_freq

\* The calculate_dtft_complex call whose job has been published is still
\* running (in its own bin loop or in the wait for done).
CallInProgress == core0.pc \in {"c_loop", "c_wait"}

\* C23: once calculate_dtft_complex has returned, the worker never again
\* writes that call's output buffer nor reads its signal buffer, so the
\* caller may free both at once: every buffer access of the worker falls
\* inside the call that published the job, on that call's two live buffers
\* and before done is set; no access ever hits freed memory; and after done
\* is set the worker only stores to the job descriptor.
C23_NoAccessAfterReturn ==
    /\ ~uaf
    /\ WorkerWillAccess =>
          /\ CallInProgress
          /\ ~core1_params.done
          /\ core1_params.signal = core0.x
          /\ core1_params.output = core0.complex_values
          /\ xmem[core0.x].live
          /\ omem[core0.complex_values].live
    /\ core1_params.done => ~WorkerWillAccess

\* The caller has freed both buffers of a call whose job had bins for the
\* worker, while the worker sits between done = true and signal = NULL with
\* the descriptor still pointing at the freed buffers.
C23_Witness ==
    /\ core0.pc = "idle"
    /\ core1.pc = "w_clear"
    /\ core1_params.done
    /\ core1_params.end_freq > core1_params.start_freq
    /\ core1_params.signal # NULL
    /\ ~xmem[core1_params.signal].live
    /\ core1_params.output # NULL
    /\ ~omem[core1_params.output].live

\* C24: the first entry of the shortlist is the byte the function returns
\* as best_match, with distance min_distance, and the array holding the
\* shortlist remains a permutation of the 256 byte values, each with its own
\* distance, so no byte is listed twice; ties included.
C24_ShortlistHeadIsBestMatch ==
    Classified =>
        LET distances == Distances(cls.computed_magnitudes)
            sorted == SortedMatches(distances)
            values == {sorted[i].value : i \in 0..(DICT_ENTRIES - 1)}
        IN  /\ Shortlist[1].value = cls.result.ret
            /\ Shortlist[1].distance = cls.result.min_distance
            /\ DOMAIN sorted = 0..(DICT_ENTRIES - 1)
            /\ values = 0..(DICT_ENTRIES - 1)
            /\ \A i \in 0..(DICT_ENTRIES - 1) :
                   sorted[i].distance = distances[sorted[i].value]
            /\ \A i \in 1..TOP_MATCHES : Shortlist[i] = sorted[i - 1]

\* A returned call whose best match is not byte 0 (the sort has swapped) and
\* ties with a higher byte.
C24_Witness ==
    /\ Classified
    /\ cls.result.ret > 0
    /\ Shortlist[1].value = cls.result.ret
    /\ \E v \in 0..(DICT_ENTRIES - 1) :
           /\ v > cls.result.ret
           /\ DistanceTo(v) = cls.result.min_distance

\* ------------------------------------ specification of repeat_pattern
\* One call repeat_pattern(pattern, repetitions) on an array of
\* pattern[0] + 1 elements.
MaxPatternLen == 3

MaxRepetitions == 3

\* Element values: 0 and 1 as send_data stores them, and two more so that a
\* copied length element or a misplaced sample shows.
RptValues == {0, 1, 2, 200}

RECURSIVE RptElements(_)
RptElements(n) ==
    IF n = 0 THEN {<< >>}
    ELSE {Append(s, b) : s \in RptElements(n - 1), b \in RptValues}

RptPatterns ==
    UNION {{<<len>> \o e : e \in RptElements(len)} : len \in 0..MaxPatternLen}

RptCall(pattern, repetitions) ==
    /\ rpt.pc = "idle"
    /\ rpt' = [pc |-> "called", pattern |-> pattern,
               repetitions |-> repetitions]
    /\ UNCHANGED <<dvars, pipe, cls, lut>>

\* The body of repeat_pattern.  pattern is only read.  With malloc failing
\* the first store goes through NULL: the call traps, or the stores are lost
\* and NULL is returned; with no store to make NULL is returned.
RptReturn(malloc_ok, trap) ==
    /\ rpt.pc = "called"
    /\ LET pattern_len == rpt.pattern[1]
           total_len == pattern_len * rpt.repetitions
       IN  rpt' =
             IF malloc_ok
             THEN [rpt EXCEPT !.pc = "returned"] @@
                  [malloc_ok |-> TRUE, pattern_after |-> rpt.pattern,
                   buffer |-> PipeBuf(repeat_pattern(rpt.pattern,
                                                     rpt.repetitions))]
             ELSE IF trap /\ total_len > 0
             THEN [rpt EXCEPT !.pc = "fault"] @@
                  [malloc_ok |-> FALSE, pattern_after |-> rpt.pattern,
                   buffer |-> PipeNull]
             ELSE [rpt EXCEPT !.pc = "returned"] @@
                  [malloc_ok |-> FALSE, pattern_after |-> rpt.pattern,
                   buffer |-> PipeNull]
    /\ UNCHANGED <<dvars, pipe, cls, lut>>

RptNext ==
    \/ \E pattern \in RptPatterns, repetitions \in 0..MaxRepetitions :
           RptCall(pattern, repetitions)
    \/ \E malloc_ok \in BOOLEAN, trap \in BOOLEAN : RptReturn(malloc_ok, trap)

RptSpec == Init /\ [][RptNext]_vars

\* ------------------------------------------- properties of repeat_pattern
\* C25: repeat_pattern(pattern, r) with len = pattern[0], its allocation
\* granted, returns a buffer of exactly len * r samples in which
\* buffer[j] = pattern[1 + (j mod len)] for every j in [0, len * r); the
\* length element is not copied and the input array is left as it was.
\* (Sequences are indexed from 1: element e of a C array is [e + 1].)
C25_RepeatedSamples ==
    (rpt.pc = "returned" /\ rpt.malloc_ok) =>
        LET len == rpt.pattern[1]
            r == rpt.repetitions
        IN  /\ rpt.buffer.ptr # NULL
            /\ DOMAIN rpt.buffer.data = 1..(len * r)
            /\ \A j \in 0..(len * r - 1) :
                   rpt.buffer.data[j + 1] = rpt.pattern[1 + (j % len) + 1]
            /\ rpt.pattern_after = rpt.pattern

\* A returned buffer of at least two repetitions of at least two samples
\* that differ from each other and from the length element.
C25_Witness ==
    /\ rpt.pc = "returned"
    /\ rpt.malloc_ok
    /\ rpt.repetitions >= 2
    /\ rpt.pattern[1] >= 2
    /\ rpt.pattern[2] # rpt.pattern[3]
    /\ rpt.pattern[2] # rpt.pattern[1]
    /\ Len(rpt.buffer.data) = rpt.pattern[1] * rpt.repetitions

\* ------------------------------------------------ properties of send_data
\* A run in which send_data got num_bits in 1..16 and its array, and has
\* returned.
Sent ==
    /\ pipe.pc \notin {"idle", "fault"}
    /\ pipe.num_bits \in MIN_BITS..MAX_BITS
    /\ pipe.bits_sent.ptr # NULL

\* The positions in the run's gpio_put calls at which RECEIVER_GPIO is
\* raised, and the position of the k-th of them.
ClockRises == {t \in DOMAIN pipe.gpio : pipe.gpio[t] = <<RECEIVER_GPIO, 1>>}

ClockFalls == {t \in DOMAIN pipe.gpio : pipe.gpio[t] = <<RECEIVER_GPIO, 0>>}

ClockRise(k) ==
    CHOOSE t \in ClockRises : Cardinality({u \in ClockRises : u < t}) = k - 1

\* C26: for num_bits in 1..16 (and the array allocated), send_data raises
\* TX_ACTIVE before the first clock pulse and lowers it only after the last
\* one, as its last gpio_put; it emits exactly num_bits clock pulses,
\* RECEIVER_GPIO high then low, the k-th directly preceded by SIGNAL_GPIO
\* being driven to bit (num_bits - k) of data, so MSB first; SIGNAL_GPIO is
\* driven to 0 after the last pulse and before TX_ACTIVE falls; and the
\* array returned has bits_sent[0] = num_bits and bits_sent[j] = bit
\* (num_bits - j) of data, the bits in the order they were driven.
C26_TransmissionFrame ==
    Sent =>
        LET g == pipe.gpio
            n == pipe.num_bits
            last == Len(g)
            b == pipe.bits_sent.data
        IN  /\ {t \in DOMAIN g : g[t][1] = TX_ACTIVE_GPIO} = {1, last}
            /\ g[1] = <<TX_ACTIVE_GPIO, 1>>
            /\ g[last] = <<TX_ACTIVE_GPIO, 0>>
            /\ Cardinality(ClockRises) = n
            /\ Cardinality(ClockFalls) = n
            /\ \A t \in ClockRises : t > 1 /\ t < last - 1
            /\ \A k \in 1..n :
                   LET t == ClockRise(k)
                   IN  /\ g[t - 1] = <<SIGNAL_GPIO, Bit(pipe.data, n - k)>>
                       /\ g[t + 1] = <<RECEIVER_GPIO, 0>>
                       /\ b[k + 1] = g[t - 1][2]
            /\ g[last - 1] = <<SIGNAL_GPIO, 0>>
            /\ \A t \in ClockRises \cup ClockFalls : t < last - 1
            /\ DOMAIN b = 1..(n + 1)
            /\ b[1] = n
            /\ \A j \in 1..n : b[j + 1] = Bit(pipe.data, n - j)

\* A 16-bit transmission of alternating bits, 1 first and 0 last.
C26_Witness ==
    /\ Sent
    /\ pipe.num_bits = MAX_BITS
    /\ pipe.data = 43690
    /\ pipe.bits_sent.data[2] = 1
    /\ pipe.bits_sent.data[MAX_BITS + 1] = 0
    /\ Len(pipe.gpio) = 3 * MAX_BITS + 3

\* ------------------------------------- properties of the pipeline's memory
\* The number of free calls the run made on buffer b.
FreeCount(b) == Cardinality({t \in DOMAIN pipe.freed : pipe.freed[t] = b})

\* The buffers process_pattern / process_pattern_return_value allocate.
OwnBuffers == {"signal_buffer", "complex_values", "magnitudes"}

\* C27: when process_pattern or process_pattern_return_value returns, on
\* whichever path, every buffer it was granted (the replicated signal
\* buffer, the complex-value buffer, the magnitude buffer) has been freed
\* exactly once, the paths on which a later allocation failed included; any
\* other free call was made on a pointer its malloc had returned as NULL;
\* and the caller's bits_sent has not been freed.
C27_BuffersFreedOnce ==
    pipe.pc = "returned" =>
        /\ pipe.allocated \subseteq OwnBuffers
        /\ \A b \in pipe.allocated : FreeCount(b) = 1
        /\ \A b \in OwnBuffers \ pipe.allocated :
               FreeCount(b) > 0 => (b \in pipe.failed /\ FreeCount(b) = 1)
        /\ \A t \in DOMAIN pipe.freed : pipe.freed[t] \in OwnBuffers
        /\ FreeCount("bits_sent") = 0

\* process_pattern has returned on the path where the signal buffer was
\* granted and the malloc of complex_values failed.
C27_Witness ==
    /\ pipe.pc = "returned"
    /\ pipe.fn = "process_pattern"
    /\ pipe.bits_sent.ptr # NULL
    /\ pipe.allocated = {"signal_buffer"}
    /\ pipe.failed = {"complex_values"}
    /\ pipe.freed = <<"signal_buffer">>

=============================================================================
